---- MODULE Spec2Model ----
(***************************************************************************)
(* Model of crossterm's attribute bitset, src/style/attributes.rs.         *)
(*                                                                         *)
(* An Attributes value is a u32.  A u32 is represented here by the set of  *)
(* the positions of its 1 bits (bit 0 is the least significant), so the    *)
(* full 32-bit width is kept, including what the complement `!x` sets.     *)
(***************************************************************************)
EXTENDS Integers, Sequences, FiniteSets, TLC

VARIABLES a, b, op, arg, arr, ret, flag

vars == <<a, b, op, arg, arr, ret, flag>>

----------------------------------------------------------------------------
(* Bounds of the model. *)

\* Number of capabilities the mutation specification (Spec) draws inputs from.
NumMutCaps == 3

\* Longest slice handed to From<&[Attribute]>.
MaxLen == 3

\* Number of capabilities the operands of SpecAlgebra are built from.
NumAlgebraCaps == 6

----------------------------------------------------------------------------
(* u32 arithmetic. *)

\* Width of the word behind Attributes(u32).
WordBits == 32

Bits == 0 .. (WordBits - 1)

\* x & y
And32(x, y) == x \cap y

\* x | y
Or32(x, y) == x \cup y

\* x ^ y
Xor32(x, y) == (x \ y) \cup (y \ x)

\* !x
Not32(x) == Bits \ x

\* 1 << n on a u32
Shl1(n) == IF n \in Bits THEN {n} ELSE {}

\* x.count_ones()
CountOnes(x) == Cardinality(x)

----------------------------------------------------------------------------
(* The capability catalog, crate::style::Attribute.  It lives outside this *)
(* file; the bitset needs from it one distinct power-of-two mask per       *)
(* capability and a fixed enumeration of all capabilities.                 *)

\* Attribute::iterator(): every capability, in declaration order.
iterator ==
    << "Reset", "Bold", "Dim", "Italic", "Underlined", "DoubleUnderlined",
       "Undercurled", "Underdotted", "Underdashed", "SlowBlink", "RapidBlink",
       "Reverse", "Hidden", "CrossedOut", "Fraktur", "NoBold",
       "NormalIntensity", "NoItalic", "NoUnderline", "NoBlink", "NoReverse",
       "NoHidden", "NotCrossedOut", "Framed", "Encircled", "OverLined",
       "NotFramedOrEncircled", "NotOverLined" >>

\* The capability values.
Attribute == {iterator[i] : i \in 1 .. Len(iterator)}

\* `attribute as u32`: the position of the capability in the declaration.
Ordinal(attribute) == (CHOOSE i \in 1 .. Len(iterator) : iterator[i] = attribute) - 1

\* Attribute::bytes(): the capability's bitmask.
bytes(attribute) == Shl1(Ordinal(attribute) + 1)

\* Every bit that belongs to some capability of the catalog.
CatalogMask == UNION {bytes(c) : c \in Attribute}

----------------------------------------------------------------------------
(* Attributes: constructors. *)

\* Attributes::none()
none == {}

\* Attributes::default(), derived: the zero word.
default == {}

\* impl From<Attribute> for Attributes
from(attribute) == bytes(attribute)

----------------------------------------------------------------------------
(* Attributes: methods.  `self` is the receiver's word. *)

with(self, attribute) == Or32(self, bytes(attribute))

\* Mutation: the complement applied to the whole conjunction.
without_misplaced_not(self, attribute) == Not32(And32(self, bytes(attribute)))

without(self, attribute) == And32(self, Not32(bytes(attribute)))

\* set, unset, toggle and extend give the receiver's word after the call.
set(self, attribute) == Or32(self, bytes(attribute))

\* Mutation: ^= in place of &= !.
unset_as_xor(self, attribute) == Xor32(self, bytes(attribute))

unset(self, attribute) == And32(self, Not32(bytes(attribute)))

\* Mutation: |= in place of ^=.
toggle_as_or(self, attribute) == Or32(self, bytes(attribute))

toggle(self, attribute) == Xor32(self, bytes(attribute))

\* Mutation: | in place of &.
has_with_or(self, attribute) == Or32(self, bytes(attribute)) # {}

has(self, attribute) == And32(self, bytes(attribute)) # {}

extend(self, attributes) == Or32(self, attributes)

is_empty(self) == self = {}

\* Mutation: the test of contains in place of the test against zero.
intersects_as_contains(self, other) == And32(self, other) = other

intersects(self, other) == And32(self, other) # {}

\* Mutation: compared with self.0 in place of other.0.
contains_reversed(self, other) == And32(self, other) = self

contains(self, other) == And32(self, other) = other

intersection(self, other) == And32(self, other)

union(self, other) == Or32(self, other)

\* Mutation: ^ in place of & !.
difference_as_xor(self, other) == Xor32(self, other)

difference(self, other) == And32(self, Not32(other))

\* Mutation: | in place of ^.
symmetric_difference_as_or(self, other) == Or32(self, other)

symmetric_difference(self, other) == Xor32(self, other)

\* Mutation: the filter negated.
iter_negated(self) == SelectSeq(iterator, LAMBDA c : ~has(self, c))

\* Attribute::iterator().filter(|a| self.has(*a))
iter(self) == SelectSeq(iterator, LAMBDA c : has(self, c))

----------------------------------------------------------------------------
(* Attributes: operators. *)

\* impl BitAnd<Attribute> for Attributes
bitand_attribute(self, rhs) == And32(self, bytes(rhs))

\* impl BitAnd for Attributes
bitand(self, rhs) == And32(self, rhs)

\* impl BitOr<Attribute> for Attributes
bitor_attribute(self, rhs) == Or32(self, bytes(rhs))

\* impl BitOr for Attributes
bitor(self, rhs) == Or32(self, rhs)

\* impl BitXor<Attribute> for Attributes
bitxor_attribute(self, rhs) == Xor32(self, bytes(rhs))

\* impl BitXor for Attributes
bitxor(self, rhs) == Xor32(self, rhs)

----------------------------------------------------------------------------
(* impl From<&[Attribute]> for Attributes: the loop over the slice. *)

RECURSIVE from_slice_loop(_, _)
from_slice_loop(attributes, rest) ==
    IF rest = << >> THEN attributes
    ELSE from_slice_loop(set(attributes, Head(rest)), Tail(rest))

\* Mutation: the loop calls toggle in place of set.
RECURSIVE from_slice_toggle_loop(_, _)
from_slice_toggle_loop(attributes, rest) ==
    IF rest = << >> THEN attributes
    ELSE from_slice_toggle_loop(toggle(attributes, Head(rest)), Tail(rest))

from_slice_toggling(slice) == from_slice_toggle_loop(default, slice)

from_slice(slice) == from_slice_loop(default, slice)

----------------------------------------------------------------------------
(* Inputs. *)

\* The order in which capabilities enter the bounded input sets: first the
\* six capabilities of tests::test_set_operations, then further ones.
InputOrder ==
    << "Bold", "Italic", "Dim", "Undercurled", "Reverse", "Underdashed",
       "Reset", "NotOverLined" >>

MutCaps == {InputOrder[i] : i \in 1 .. NumMutCaps}

AlgebraCaps == {InputOrder[i] : i \in 1 .. NumAlgebraCaps}

\* The slices handed to From<&[Attribute]>.
Slices == UNION {[1 .. n -> MutCaps] : n \in 0 .. MaxLen}

\* The set holding exactly the capabilities of S, built by chaining with().
RECURSIVE BuildFrom(_)
BuildFrom(S) ==
    IF S = {} THEN none
    ELSE LET c == CHOOSE x \in S : TRUE IN with(BuildFrom(S \ {c}), c)

\* What no capability argument / no slice argument is recorded as.
NoArg == "-"

----------------------------------------------------------------------------
(* Spec: a program that holds two Attributes values, a and b.  Every call  *)
(* has a as its receiver and, where it takes a second set, b as `other`.   *)
(* A call that returns a new set has its result bound to a.  Attributes is *)
(* Copy, so b takes the current value of a by assignment.  op, arg and arr *)
(* record the last call and its arguments.                                 *)

Init ==
    /\ a = none
    /\ b = none
    /\ op = "none"
    /\ arg = NoArg
    /\ arr = << >>
    /\ ret = none
    /\ flag = FALSE

\* Result r of call o with capability argument c becomes the value of a.
Bind(r, o, c) ==
    /\ a' = r
    /\ op' = o
    /\ arg' = c
    /\ arr' = << >>
    /\ UNCHANGED <<b, ret, flag>>

None == Bind(none, "none", NoArg)

FromAttribute == \E c \in MutCaps : Bind(from(c), "from", c)

FromSlice ==
    \E s \in Slices :
        /\ a' = from_slice(s)
        /\ op' = "from_slice"
        /\ arg' = NoArg
        /\ arr' = s
        /\ UNCHANGED <<b, ret, flag>>

\* let b = a;
Copy ==
    /\ b' = a
    /\ op' = "copy"
    /\ arg' = NoArg
    /\ arr' = << >>
    /\ UNCHANGED <<a, ret, flag>>

With == \E c \in MutCaps : Bind(with(a, c), "with", c)

Without == \E c \in MutCaps : Bind(without(a, c), "without", c)

Set == \E c \in MutCaps : Bind(set(a, c), "set", c)

Unset == \E c \in MutCaps : Bind(unset(a, c), "unset", c)

Toggle == \E c \in MutCaps : Bind(toggle(a, c), "toggle", c)

Extend == Bind(extend(a, b), "extend", NoArg)

Intersection == Bind(intersection(a, b), "intersection", NoArg)

Union == Bind(union(a, b), "union", NoArg)

Difference == Bind(difference(a, b), "difference", NoArg)

SymmetricDifference == Bind(symmetric_difference(a, b), "symmetric_difference", NoArg)

BitAnd == Bind(bitand(a, b), "bitand", NoArg)

BitOr == Bind(bitor(a, b), "bitor", NoArg)

BitXor == Bind(bitxor(a, b), "bitxor", NoArg)

BitAndAttribute == \E c \in MutCaps : Bind(bitand_attribute(a, c), "bitand_attribute", c)

BitOrAttribute == \E c \in MutCaps : Bind(bitor_attribute(a, c), "bitor_attribute", c)

BitXorAttribute == \E c \in MutCaps : Bind(bitxor_attribute(a, c), "bitxor_attribute", c)

Next ==
    \/ None
    \/ FromAttribute
    \/ FromSlice
    \/ Copy
    \/ With
    \/ Without
    \/ Set
    \/ Unset
    \/ Toggle
    \/ Extend
    \/ Intersection
    \/ Union
    \/ Difference
    \/ SymmetricDifference
    \/ BitAnd
    \/ BitOr
    \/ BitXor
    \/ BitAndAttribute
    \/ BitOrAttribute
    \/ BitXorAttribute

Spec == Init /\ [][Next]_vars

----------------------------------------------------------------------------
(* SpecAlgebra: the two-set functions and queries as pure functions.  The  *)
(* operands a and b are any two sets built from AlgebraCaps; one call is   *)
(* applied to them, its result kept in ret (a set) or flag (a bool).       *)

InitAlgebra ==
    /\ a \in {BuildFrom(S) : S \in SUBSET AlgebraCaps}
    /\ b \in {BuildFrom(S) : S \in SUBSET AlgebraCaps}
    /\ op = "input"
    /\ arg = NoArg
    /\ arr = << >>
    /\ ret = none
    /\ flag = FALSE

Returns(r, o) ==
    /\ op = "input"
    /\ ret' = r
    /\ op' = o
    /\ UNCHANGED <<a, b, arg, arr, flag>>

Answers(r, o) ==
    /\ op = "input"
    /\ flag' = r
    /\ op' = o
    /\ UNCHANGED <<a, b, arg, arr, ret>>

CallIntersection == Returns(intersection(a, b), "intersection")

CallUnion == Returns(union(a, b), "union")

CallDifference == Returns(difference(a, b), "difference")

CallSymmetricDifference == Returns(symmetric_difference(a, b), "symmetric_difference")

CallBitAnd == Returns(bitand(a, b), "bitand")

CallBitOr == Returns(bitor(a, b), "bitor")

CallBitXor == Returns(bitxor(a, b), "bitxor")

CallIntersects == Answers(intersects(a, b), "intersects")

CallContains == Answers(contains(a, b), "contains")

CallIsEmpty == Answers(is_empty(a), "is_empty")

NextAlgebra ==
    \/ CallIntersection
    \/ CallUnion
    \/ CallDifference
    \/ CallSymmetricDifference
    \/ CallBitAnd
    \/ CallBitOr
    \/ CallBitXor
    \/ CallIntersects
    \/ CallContains
    \/ CallIsEmpty

SpecAlgebra == InitAlgebra /\ [][NextAlgebra]_vars

\* Shape of the state.
TypeOK ==
    /\ a \subseteq Bits
    /\ b \subseteq Bits
    /\ ret \subseteq Bits
    /\ flag \in BOOLEAN
    /\ arg \in Attribute \cup {NoArg}
    /\ arr \in Slices

----------------------------------------------------------------------------
(* Properties. *)

\* The sets A and B of tests::test_set_operations.
SetA == with(with(with(with(none, "Bold"), "Italic"), "Dim"), "Undercurled")

SetB == with(with(with(with(none, "Bold"), "Reverse"), "Dim"), "Underdashed")

\* acc with every capability of the sequence chained on by with().
RECURSIVE WithChain(_, _)
WithChain(acc, rest) ==
    IF rest = << >> THEN acc
    ELSE WithChain(with(acc, Head(rest)), Tail(rest))

\* The capabilities that occur in a sequence.
Range(s) == {s[i] : i \in 1 .. Len(s)}

\* C1: the result of intersection(a, b) has a capability iff both a and b
\* have it, that of union(a, b) iff a or b has it, that of difference(a, b)
\* iff a has it and b does not; for A = {Bold, Italic, Dim, Undercurled} and
\* B = {Bold, Reverse, Dim, Underdashed} the results are {Bold, Dim}, the
\* six-capability set, A - B = {Italic, Undercurled} and
\* B - A = {Reverse, Underdashed}.
C1_SetAlgebra ==
    /\ op = "intersection" =>
           \A c \in Attribute : has(ret, c) <=> (has(a, c) /\ has(b, c))
    /\ op = "union" =>
           \A c \in Attribute : has(ret, c) <=> (has(a, c) \/ has(b, c))
    /\ op = "difference" =>
           \A c \in Attribute : has(ret, c) <=> (has(a, c) /\ ~has(b, c))
    /\ (a = SetA /\ b = SetB /\ op = "intersection") =>
           ret = from_slice(<<"Bold", "Dim">>)
    /\ (a = SetA /\ b = SetB /\ op = "union") =>
           ret = WithChain(none, <<"Bold", "Italic", "Dim", "Undercurled",
                                   "Reverse", "Underdashed">>)
    /\ (a = SetA /\ b = SetB /\ op = "difference") =>
           ret = WithChain(none, <<"Italic", "Undercurled">>)
    /\ (a = SetB /\ b = SetA /\ op = "difference") =>
           ret = WithChain(none, <<"Reverse", "Underdashed">>)

\* difference has been applied to the test's A and B.
C1_Witness ==
    /\ op = "difference"
    /\ a = SetA
    /\ b = SetB
    /\ has(ret, "Italic") /\ has(ret, "Undercurled") /\ CountOnes(ret) = 2

\* C2: whatever sequence of constructions and calls produced them, the words
\* of a and of b have no bit set outside the bitmasks of the catalog.
C2_OnlyCatalogBits ==
    /\ And32(a, Not32(CatalogMask)) = {}
    /\ And32(b, Not32(CatalogMask)) = {}

\* A call that complements a mask has acted and left a non-empty set.
C2_Witness ==
    /\ op \in {"without", "difference"}
    /\ a # none
    /\ b # none

\* C3: set(c) leaves c present, unset(c) leaves c absent, both leave every
\* other capability as it was; set of a present capability and unset of an
\* absent one leave the set unchanged.
C3_SetUnsetFrame ==
    [][ /\ op' = "set" =>
              /\ has(a', arg')
              /\ \A d \in Attribute \ {arg'} : has(a', d) <=> has(a, d)
              /\ has(a, arg') => a' = a
        /\ op' = "unset" =>
              /\ ~has(a', arg')
              /\ \A d \in Attribute \ {arg'} : has(a', d) <=> has(a, d)
              /\ ~has(a, arg') => a' = a
      ]_vars

\* unset has acted on a set that keeps two other capabilities.
C3_Witness ==
    /\ op = "unset"
    /\ ~has(a, arg)
    /\ CountOnes(a) = 2

\* C4: from(c) has c and has no capability other than c.
C4_FromOne ==
    op = "from" =>
        /\ has(a, arg)
        /\ \A d \in Attribute \ {arg} : ~has(a, d)

\* A set has been converted from the capability Italic.
C4_Witness ==
    /\ op = "from"
    /\ arg = "Italic"
    /\ ~is_empty(a)

\* C5: contains(a, b) is true iff every capability of b is a capability of
\* a; a set contains itself; every set contains the empty set.
C5_Contains ==
    /\ op = "contains" =>
           (flag <=> \A c \in Attribute : has(b, c) => has(a, c))
    /\ (op = "contains" /\ b = a) => flag
    /\ (op = "contains" /\ b = none) => flag

\* contains has been asked of the test's A and its subset {Bold, Dim}.
C5_Witness ==
    /\ op = "contains"
    /\ a = SetA
    /\ b = WithChain(none, <<"Bold", "Dim">>)
    /\ flag

\* C6: intersects(a, b) is true iff a and b share a capability; it equals
\* intersects(b, a); it is false when a or b is empty.
C6_Intersects ==
    op = "intersects" =>
        /\ flag <=> \E c \in Attribute : has(a, c) /\ has(b, c)
        /\ flag <=> intersects(b, a)
        /\ (is_empty(a) \/ is_empty(b)) => ~flag

\* intersects has been asked of two empty sets.
C6_Witness ==
    /\ op = "intersects"
    /\ is_empty(a)
    /\ is_empty(b)
    /\ ~flag

\* C7: in every state iter() yields exactly the capabilities the set has,
\* each once, in the order of the catalog's enumeration, as many as the word
\* has bits set.
C7_Iter ==
    LET s == iter(a) IN
    /\ \A c \in Attribute : has(a, c) <=> c \in Range(s)
    /\ \A i, j \in 1 .. Len(s) : i < j => Ordinal(s[i]) < Ordinal(s[j])
    /\ Len(s) = CountOnes(a)

\* A set filled in the order Italic, Dim, Bold is iterated as Bold, Dim, Italic.
C7_Witness ==
    /\ op = "from_slice"
    /\ arr = <<"Italic", "Dim", "Bold">>
    /\ iter(a) = <<"Bold", "Dim", "Italic">>

\* C8: symmetric_difference(a, b) equals the union of difference(a, b) and
\* difference(b, a), and equals a ^ b.
C8_SymmetricDifference ==
    /\ op = "symmetric_difference" =>
           /\ ret = union(difference(a, b), difference(b, a))
           /\ ret = bitxor(a, b)
    /\ op = "bitxor" => ret = symmetric_difference(a, b)

\* symmetric_difference has been applied to the test's A and B.
C8_Witness ==
    /\ op = "symmetric_difference"
    /\ a = SetA
    /\ b = SetB
    /\ ret = WithChain(none, <<"Italic", "Undercurled", "Reverse", "Underdashed">>)

\* C9: toggle(c) flips whether c is present, leaves every other capability
\* as it was, and a second toggle(c) gives back the set from before the first.
C9_Toggle ==
    [][ op' = "toggle" =>
            /\ has(a', arg') <=> ~has(a, arg')
            /\ \A d \in Attribute \ {arg'} : has(a', d) <=> has(a, d)
            /\ toggle(a', arg') = a
      ]_vars

\* toggle has removed a capability from a set that keeps another one.
C9_Witness ==
    /\ op = "toggle"
    /\ ~has(a, arg)
    /\ ~is_empty(a)

\* C10: the set built from a sequence has exactly the capabilities that
\* occur in it; every sequence with the same capabilities (reordered, with
\* duplicates added or removed) builds an equal set; the set equals none()
\* with the capabilities chained on by with().
C10_FromMany ==
    op = "from_slice" =>
        /\ \A c \in Attribute : has(a, c) <=> c \in Range(arr)
        /\ \A s \in Slices : Range(s) = Range(arr) => from_slice(s) = a
        /\ a = WithChain(none, arr)

\* A set has been built from a sequence with a duplicate, out of catalog order.
C10_Witness ==
    /\ op = "from_slice"
    /\ arr = <<"Italic", "Bold", "Italic">>
    /\ CountOnes(a) = 2

====
